---------------------------- MODULE Spec2Model ----------------------------
(***************************************************************************)
(* A model of KMeansFromScratch.py: the k-means clusterer                   *)
(* (KMeansFromScratch.fit and its helpers), the ratio-cut partitioner      *)
(* (ratio_cut_clustering) and the driver (load_images_from_folder, main).  *)
(*                                                                         *)
(* Numbers.  A feature matrix is N x 1 (segment_image reshapes the gray    *)
(* image to (-1, 1)), so a row is one integer.  A centroid is a mean of    *)
(* integers: it is kept as the exact fraction num/den, or as NaN (the mean *)
(* of an empty slice).  Comparisons of fractions cross-multiply, so the     *)
(* arithmetic is exact: the rounding of float64 is not modelled.           *)
(*                                                                         *)
(* Entry points.  fit, ratio_cut_clustering and main are modelled as three *)
(* calls, each with its own specification (SpecFit, SpecRatioCut,          *)
(* SpecMain); the variables of the other two stay idle.                    *)
(***************************************************************************)
EXTENDS Integers, Sequences, FiniteSets

\* ------------------------------------------------------------------ bounds
MaxN == 3
MaxK == 3
MaxIter == 3

\* The values a uint8 matrix (a gray image) is drawn from, and the values a
\* float64 matrix is drawn from.
Uint8Vals == {0, 1, 10}
FloatVals == {50000, 50001, 50010}
Dtypes == {"uint8", "float64"}

Pool(dt) == IF dt = "uint8" THEN Uint8Vals ELSE FloatVals

VARIABLES
    X,              \* the feature matrix, a sequence of N rows
    dtype,          \* X.dtype
    n_clusters,     \* self.n_clusters
    max_iter,       \* self.max_iter
    centers,        \* self.centers, <<>> for None
    centers_dtype,  \* self.centers.dtype
    random_idx,     \* random_idx[:self.n_clusters]
    i,              \* the loop variable of fit: the round about to run
    labels,         \* the local labels of fit, <<>> while unbound
    new_centers,    \* the local new_centers of fit
    labels_,        \* self.labels_, <<>> while unset
    pc,             \* where fit is
    err,            \* the exception fit raised, "" for none
    history         \* one record per completed update step: what the round saw

VARIABLES
    gray,           \* the gray image, gray[r][c], 0-based
    rows,           \* gray.shape[0]
    cols,           \* gray.shape[1]
    num_clusters,   \* the num_clusters argument of ratio_cut_clustering
    data,           \* the edge weights, in the order appended
    row_ind,        \* the row index of each edge
    col_ind,        \* the column index of each edge
    degrees,        \* degrees[p] for pixel p, 0-based
    laplacian,      \* laplacian[p][q]
    vec,            \* eigenvectors[:, 1]
    rc_labels,      \* the label map ratio_cut_clustering returns
    rc_pc,          \* where ratio_cut_clustering is
    rc_err          \* the exception it raised, "" for none

VARIABLES
    folder_exists,  \* whether os.listdir(folder) succeeds
    file_list,      \* per file of the folder: whether cv2.imread decodes it
    file_pos,       \* how many files load_images_from_folder has handled
    images,         \* the decoded images, each named by its place in file_list
    warnings,       \* the files reported as unreadable
    image_pos,      \* how many images the loop of main has started
    attempted,      \* the images whose processing was started
    main_pc,        \* where main is
    main_err        \* the exception that left main, "" for none

rcVars == <<gray, rows, cols, num_clusters, data, row_ind, col_ind, degrees,
            laplacian, vec, rc_labels, rc_pc, rc_err>>

mainVars == <<folder_exists, file_list, file_pos, images, warnings, image_pos,
              attempted, main_pc, main_err>>

fitVars == <<X, dtype, n_clusters, max_iter, centers, centers_dtype, random_idx,
             i, labels, new_centers, labels_, pc, err, history>>

\* ------------------------------------------------------------- arithmetic
Abs(a) == IF a < 0 THEN -a ELSE a

Min(a, b) == IF a < b THEN a ELSE b

Max(a, b) == IF a < b THEN b ELSE a

NaN == [nan |-> TRUE, num |-> 0, den |-> 1]

Frac(n, d) == [nan |-> FALSE, num |-> n, den |-> d]

\* a < b for two fractions that are not NaN
FracLess(a, b) == a.num * b.den < b.num * a.den

FracEq(a, b) == a.num * b.den = b.num * a.den

RECURSIVE SumRows(_, _)
SumRows(M, S) ==
    IF S = {} THEN 0
    ELSE LET n == CHOOSE m \in S : TRUE IN M[n] + SumRows(M, S \ {n})

\* ---------------------------------------------------------------- k-means
\* np.random.permutation(X.shape[0])[:self.n_clusters]: the first
\* min(k, N) entries of a permutation of the row indices.
Prefixes(N, k) ==
    {p \in [1..Min(k, N) -> 1..N] : \A a, b \in 1..Min(k, N) : a # b => p[a] # p[b]}

\* One entry of np.linalg.norm(X - center, axis=1).  A uint8 X minus a uint8
\* center is a uint8 difference, which wraps around modulo 256, before norm
\* converts it to float; a float center makes the difference a float.
Distance(x, center, cdt) ==
    IF center.nan THEN NaN
    ELSE IF dtype = "uint8" /\ cdt = "uint8"
         THEN Frac((x - center.num) % 256, 1)
         ELSE Frac(Abs(x * center.den - center.num), center.den)

compute_distance(M, center, cdt) == [n \in 1..Len(M) |-> Distance(M[n], center, cdt)]

ArgMinOneBased(d) ==
    IF \E c \in 1..Len(d) : d[c].nan
    THEN CHOOSE c \in 1..Len(d) : d[c].nan /\ \A b \in 1..(c - 1) : ~d[b].nan
    ELSE CHOOSE c \in 1..Len(d) :
            /\ \A b \in 1..Len(d) : ~FracLess(d[b], d[c])
            /\ \A b \in 1..(c - 1) : FracLess(d[c], d[b])

\* np.argmin of one row of distances: the first NaN when there is one,
\* otherwise the first minimum; 0-based.
ArgMin(d) ==
    IF \E c \in 1..Len(d) : d[c].nan
    THEN (CHOOSE c \in 1..Len(d) : d[c].nan /\ \A b \in 1..(c - 1) : ~d[b].nan) - 1
    ELSE (CHOOSE c \in 1..Len(d) :
            /\ \A b \in 1..Len(d) : ~FracLess(d[b], d[c])
            /\ \A b \in 1..(c - 1) : FracLess(d[c], d[b])) - 1

assign_labels(M, cs, cdt) ==
    [n \in 1..Len(M) |-> ArgMin([c \in 1..Len(cs) |-> compute_distance(M, cs[c], cdt)[n]])]

Members(lab, c) == {n \in 1..Len(lab) : lab[n] = c}

\* X[labels == i].mean(axis=0): NaN for an empty slice
Mean(M, S) == IF S = {} THEN NaN ELSE Frac(SumRows(M, S), Cardinality(S))

update_centers(M, lab) == [c \in 1..n_clusters |-> Mean(M, Members(lab, c - 1))]

\* np.isclose(a, b, rtol=1e-05, atol=1e-4) on one coordinate:
\* |a - b| <= atol + rtol * |b|, never for a NaN.  In units of 1/100000 over
\* the common denominator a.den * b.den.
IsClose(a, b) ==
    /\ ~a.nan
    /\ ~b.nan
    /\ Abs(a.num * b.den - b.num * a.den)
         <= (10 * a.den * b.den + Abs(b.num) * a.den) \div 100000

\* whether shapes (a, 1) and (b, 1) broadcast
Broadcastable(a, b) == a = b \/ a = 1 \/ b = 1

BIdx(len, c) == IF len = 1 THEN 1 ELSE c

AllClose(a, b) ==
    \A c \in 1..Max(Len(a), Len(b)) : IsClose(a[BIdx(Len(a), c)], b[BIdx(Len(b), c)])

LoopContinuesOffByOne(it, mx) == it <= mx

\* for i in range(self.max_iter)
LoopContinues(it, mx) == it < mx

FitInit ==
    /\ dtype \in Dtypes
    /\ \E N \in 1..MaxN : X \in [1..N -> Pool(dtype)]
    /\ n_clusters \in 1..MaxK
    /\ max_iter \in 0..MaxIter
    /\ centers = <<>>
    /\ centers_dtype = dtype
    /\ random_idx = <<>>
    /\ i = 0
    /\ labels = <<>>
    /\ new_centers = <<>>
    /\ labels_ = <<>>
    /\ pc = "start"
    /\ err = ""
    /\ history = <<>>

initialize_centers ==
    /\ pc = "start"
    /\ \E p \in Prefixes(Len(X), n_clusters) :
          /\ random_idx' = p
          /\ centers' = [c \in 1..Len(p) |-> Frac(X[p[c]], 1)]
    /\ centers_dtype' = dtype
    /\ pc' = "loop"
    /\ UNCHANGED <<X, dtype, n_clusters, max_iter, i, labels, new_centers,
                   labels_, err, history>>
    /\ UNCHANGED <<rcVars, mainVars>>

AssignStep ==
    /\ pc = "loop"
    /\ LoopContinues(i, max_iter)
    /\ labels' = assign_labels(X, centers, centers_dtype)
    /\ pc' = "update"
    /\ UNCHANGED <<X, dtype, n_clusters, max_iter, centers, centers_dtype,
                   random_idx, i, new_centers, labels_, err, history>>
    /\ UNCHANGED <<rcVars, mainVars>>

UpdateStep ==
    /\ pc = "update"
    /\ new_centers' = update_centers(X, labels)
    /\ history' = Append(history, [old |-> centers, old_dtype |-> centers_dtype,
                                   labels |-> labels,
                                   new |-> update_centers(X, labels)])
    /\ pc' = "check"
    /\ UNCHANGED <<X, dtype, n_clusters, max_iter, centers, centers_dtype,
                   random_idx, i, labels, labels_, err>>
    /\ UNCHANGED <<rcVars, mainVars>>

\* np.allclose on shapes that do not broadcast raises ValueError
ConvergeRaise ==
    /\ pc = "check"
    /\ ~Broadcastable(Len(centers), Len(new_centers))
    /\ pc' = "raised"
    /\ err' = "ValueError"
    /\ UNCHANGED <<X, dtype, n_clusters, max_iter, centers, centers_dtype,
                   random_idx, i, labels, new_centers, labels_, history>>
    /\ UNCHANGED <<rcVars, mainVars>>

ConvergeBreak ==
    /\ pc = "check"
    /\ Broadcastable(Len(centers), Len(new_centers))
    /\ AllClose(centers, new_centers)
    /\ pc' = "exit"
    /\ UNCHANGED <<X, dtype, n_clusters, max_iter, centers, centers_dtype,
                   random_idx, i, labels, new_centers, labels_, err, history>>
    /\ UNCHANGED <<rcVars, mainVars>>

ConvergeStore ==
    /\ pc = "check"
    /\ Broadcastable(Len(centers), Len(new_centers))
    /\ ~AllClose(centers, new_centers)
    /\ centers' = new_centers
    /\ centers_dtype' = "float64"
    /\ i' = i + 1
    /\ pc' = "loop"
    /\ UNCHANGED <<X, dtype, n_clusters, max_iter, random_idx, labels,
                   new_centers, labels_, err, history>>
    /\ UNCHANGED <<rcVars, mainVars>>

LoopExhausted ==
    /\ pc = "loop"
    /\ ~LoopContinues(i, max_iter)
    /\ pc' = "exit"
    /\ UNCHANGED <<X, dtype, n_clusters, max_iter, centers, centers_dtype,
                   random_idx, i, labels, new_centers, labels_, err, history>>
    /\ UNCHANGED <<rcVars, mainVars>>

StoreLabelsReassigned ==
    /\ pc = "exit"
    /\ labels # <<>>
    /\ labels_' = assign_labels(X, centers, centers_dtype)
    /\ pc' = "done"
    /\ UNCHANGED <<X, dtype, n_clusters, max_iter, centers, centers_dtype,
                   random_idx, i, labels, new_centers, err, history>>
    /\ UNCHANGED <<rcVars, mainVars>>

\* self.labels_ = labels
StoreLabels ==
    /\ pc = "exit"
    /\ labels # <<>>
    /\ labels_' = labels
    /\ pc' = "done"
    /\ UNCHANGED <<X, dtype, n_clusters, max_iter, centers, centers_dtype,
                   random_idx, i, labels, new_centers, err, history>>
    /\ UNCHANGED <<rcVars, mainVars>>

\* self.labels_ = labels with max_iter = 0: the local was never bound
StoreRaise ==
    /\ pc = "exit"
    /\ labels = <<>>
    /\ pc' = "raised"
    /\ err' = "UnboundLocalError"
    /\ UNCHANGED <<X, dtype, n_clusters, max_iter, centers, centers_dtype,
                   random_idx, i, labels, new_centers, labels_, history>>
    /\ UNCHANGED <<rcVars, mainVars>>

fit ==
    \/ initialize_centers
    \/ AssignStep
    \/ UpdateStep
    \/ ConvergeRaise
    \/ ConvergeBreak
    \/ ConvergeStore
    \/ LoopExhausted
    \/ StoreLabels
    \/ StoreRaise

\* -------------------------------------------------------------- ratio cut
MaxPixels == 4

\* gray levels an image is drawn from, and the components an eigenvector is
\* drawn from
GrayVals == {0, 10}
VecVals == {-1, 0, 1}

\* num_clusters_list of main
NumClustersList == {3, 6}

\* the number of eigenpairs asked of eigsh
NumEig == 2

\* A weight is exp(-d / 10) for an integer d >= 0.  Sums and differences of
\* weights are kept exactly, as the integer coefficient of exp(-d / 10) for
\* each d that can occur: the numbers exp(-d / 10), d = 0, 1, 2, ..., are
\* linearly independent over the integers, so two such numbers are equal
\* exactly when their coefficients are.
Deltas == {Abs(a - b) : a, b \in GrayVals}

RZero == [d \in Deltas |-> 0]

RAdd(a, b) == [d \in Deltas |-> a[d] + b[d]]

RSub(a, b) == [d \in Deltas |-> a[d] - b[d]]

\* np.exp(-abs(int(a) - int(b)) / 10.0)
Weight(a, b) == [d \in Deltas |-> IF d = Abs(a - b) THEN 1 ELSE 0]

Size == rows * cols

Pixels == 0..(Size - 1)

\* the edges the loop body appends for pixel (r, c): up first, then left
EdgesOf(g, r, c, nc) ==
    LET index == r * nc + c
    IN  (IF r > 0
         THEN <<[weight |-> Weight(g[r][c], g[r - 1][c]), row |-> index,
                 col |-> index - nc]>>
         ELSE <<>>)
        \o
        (IF c > 0
         THEN <<[weight |-> Weight(g[r][c], g[r][c - 1]), row |-> index,
                 col |-> index - 1]>>
         ELSE <<>>)

RECURSIVE EdgeList(_, _, _, _)
\* the edges appended for the pixels 0..index, in raster order
EdgeList(g, nr, nc, index) ==
    IF index < 0 THEN <<>>
    ELSE EdgeList(g, nr, nc, index - 1) \o EdgesOf(g, index \div nc, index % nc, nc)

RECURSIVE SumEntries(_, _, _, _, _, _)
\* csr_matrix((data, (row_ind, col_ind))): the entry at (r, c) is the sum of
\* the data given for it
SumEntries(d, ri, ci, r, c, t) ==
    IF t = 0 THEN RZero
    ELSE RAdd(SumEntries(d, ri, ci, r, c, t - 1),
              IF ri[t] = r /\ ci[t] = c THEN d[t] ELSE RZero)

graph(r, c) == SumEntries(data, row_ind, col_ind, r, c, Len(data))

RECURSIVE ColumnSum(_, _)
\* graph.sum(axis=0)[c]: the sum over the rows 0..r of column c
ColumnSum(c, r) == IF r < 0 THEN RZero ELSE RAdd(ColumnSum(c, r - 1), graph(r, c))

\* the number of components of v below x, and at or below x
Below(v, x) == Cardinality({p \in DOMAIN v : v[p] < x})

AtOrBelow(v, x) == Cardinality({p \in DOMAIN v : v[p] <= x})

\* the k-th smallest component of v, k = 1 for the smallest
KthSmallest(v, k) ==
    CHOOSE x \in {v[p] : p \in DOMAIN v} : Below(v, x) < k /\ k <= AtOrBelow(v, x)

\* twice np.median(v): the middle component, or the mean of the two middle ones
TwiceMedian(v) ==
    LET n == Cardinality(DOMAIN v)
    IN  IF n % 2 = 1
        THEN 2 * KthSmallest(v, (n + 1) \div 2)
        ELSE KthSmallest(v, n \div 2) + KthSmallest(v, n \div 2 + 1)

ThresholdAtOrAbove(v, p) == IF 2 * v[p] >= TwiceMedian(v) THEN 1 ELSE 0

\* (vec > median_value).astype(int), one component
Threshold(v, p) == IF 2 * v[p] > TwiceMedian(v) THEN 1 ELSE 0

RCInit ==
    /\ \E nr \in 1..MaxPixels, nc \in 1..MaxPixels :
          /\ nr * nc <= MaxPixels
          /\ rows = nr
          /\ cols = nc
          /\ gray \in [0..(nr - 1) -> [0..(nc - 1) -> GrayVals]]
    /\ num_clusters \in NumClustersList
    /\ data = <<>>
    /\ row_ind = <<>>
    /\ col_ind = <<>>
    /\ degrees = <<>>
    /\ laplacian = <<>>
    /\ vec = <<>>
    /\ rc_labels = <<>>
    /\ rc_pc = "start"
    /\ rc_err = ""

\* the loop over the pixels that fills data, row_ind and col_ind
BuildGraph ==
    /\ rc_pc = "start"
    /\ LET edges == EdgeList(gray, rows, cols, Size - 1)
       IN  /\ data' = [t \in 1..Len(edges) |-> edges[t].weight]
           /\ row_ind' = [t \in 1..Len(edges) |-> edges[t].row]
           /\ col_ind' = [t \in 1..Len(edges) |-> edges[t].col]
    /\ rc_pc' = "graph"
    /\ UNCHANGED <<gray, rows, cols, num_clusters, degrees, laplacian, vec,
                   rc_labels, rc_err>>
    /\ UNCHANGED <<fitVars, mainVars>>

\* graph, degrees, degree_matrix, laplacian
BuildLaplacian ==
    /\ rc_pc = "graph"
    /\ degrees' = [p \in Pixels |-> ColumnSum(p, Size - 1)]
    /\ laplacian' = [p \in Pixels |-> [q \in Pixels |->
                        RSub(IF p = q THEN ColumnSum(p, Size - 1) ELSE RZero,
                             graph(p, q))]]
    /\ rc_pc' = "laplacian"
    /\ UNCHANGED <<gray, rows, cols, num_clusters, data, row_ind, col_ind, vec,
                   rc_labels, rc_err>>
    /\ UNCHANGED <<fitVars, mainVars>>

\* eigsh(laplacian, k=2) of a sparse matrix with no more than 2 rows raises
EigshTooSmall ==
    /\ rc_pc = "laplacian"
    /\ NumEig >= Size
    /\ rc_pc' = "raised"
    /\ rc_err' = "TypeError"
    /\ UNCHANGED <<gray, rows, cols, num_clusters, data, row_ind, col_ind,
                   degrees, laplacian, vec, rc_labels>>
    /\ UNCHANGED <<fitVars, mainVars>>

\* eigsh gives up when ARPACK does not converge
EigshNoConvergence ==
    /\ rc_pc = "laplacian"
    /\ NumEig < Size
    /\ rc_pc' = "raised"
    /\ rc_err' = "ArpackNoConvergence"
    /\ UNCHANGED <<gray, rows, cols, num_clusters, data, row_ind, col_ind,
                   degrees, laplacian, vec, rc_labels>>
    /\ UNCHANGED <<fitVars, mainVars>>

\* vec = eigenvectors[:, 1].  The matrix handed to the symmetric solver is
\* not symmetric, so the vector is any nonzero vector.
Eigsh ==
    /\ rc_pc = "laplacian"
    /\ NumEig < Size
    /\ vec' \in [Pixels -> VecVals]
    /\ \E p \in Pixels : vec'[p] # 0
    /\ rc_pc' = "eigen"
    /\ UNCHANGED <<gray, rows, cols, num_clusters, data, row_ind, col_ind,
                   degrees, laplacian, rc_labels, rc_err>>
    /\ UNCHANGED <<fitVars, mainVars>>

\* median_value, labels, return labels
ThresholdAndReturn ==
    /\ rc_pc = "eigen"
    /\ rc_labels' = [r \in 0..(rows - 1) |-> [c \in 0..(cols - 1) |->
                        Threshold(vec, r * cols + c)]]
    /\ rc_pc' = "returned"
    /\ UNCHANGED <<gray, rows, cols, num_clusters, data, row_ind, col_ind,
                   degrees, laplacian, vec, rc_err>>
    /\ UNCHANGED <<fitVars, mainVars>>

ratio_cut_clustering ==
    \/ BuildGraph
    \/ BuildLaplacian
    \/ EigshTooSmall
    \/ EigshNoConvergence
    \/ Eigsh
    \/ ThresholdAndReturn

\* ------------------------------------------------------------------ driver
MaxFiles == 4

MainInit ==
    /\ folder_exists \in BOOLEAN
    /\ IF folder_exists
       THEN \E n \in 0..MaxFiles : file_list \in [1..n -> BOOLEAN]
       ELSE file_list = <<>>
    /\ file_pos = 0
    /\ images = <<>>
    /\ warnings = <<>>
    /\ image_pos = 0
    /\ attempted = {}
    /\ main_pc = "load"
    /\ main_err = ""

\* os.listdir raises FileNotFoundError: report it and return no images
LoadMissingFolder ==
    /\ main_pc = "load"
    /\ ~folder_exists
    /\ main_pc' = "loop"
    /\ UNCHANGED <<folder_exists, file_list, file_pos, images, warnings,
                   image_pos, attempted, main_err>>
    /\ UNCHANGED <<fitVars, rcVars>>

\* cv2.imread decodes the next file
LoadImage ==
    /\ main_pc = "load"
    /\ folder_exists
    /\ file_pos < Len(file_list)
    /\ file_list[file_pos + 1]
    /\ images' = Append(images, file_pos + 1)
    /\ file_pos' = file_pos + 1
    /\ UNCHANGED <<folder_exists, file_list, warnings, image_pos, attempted,
                   main_pc, main_err>>
    /\ UNCHANGED <<fitVars, rcVars>>

\* cv2.imread returns None for the next file
LoadWarn ==
    /\ main_pc = "load"
    /\ folder_exists
    /\ file_pos < Len(file_list)
    /\ ~file_list[file_pos + 1]
    /\ warnings' = Append(warnings, file_pos + 1)
    /\ file_pos' = file_pos + 1
    /\ UNCHANGED <<folder_exists, file_list, images, image_pos, attempted,
                   main_pc, main_err>>
    /\ UNCHANGED <<fitVars, rcVars>>

LoadReturn ==
    /\ main_pc = "load"
    /\ folder_exists
    /\ file_pos = Len(file_list)
    /\ main_pc' = "loop"
    /\ UNCHANGED <<folder_exists, file_list, file_pos, images, warnings,
                   image_pos, attempted, main_err>>
    /\ UNCHANGED <<fitVars, rcVars>>

\* for image in images: the next image, up to the first segmentation call
StartImage ==
    /\ main_pc = "loop"
    /\ image_pos < Len(images)
    /\ image_pos' = image_pos + 1
    /\ attempted' = attempted \cup {images[image_pos + 1]}
    /\ main_pc' = "segment"
    /\ UNCHANGED <<folder_exists, file_list, file_pos, images, warnings,
                   main_err>>
    /\ UNCHANGED <<fitVars, rcVars>>

\* segment_image(image, num_clusters, method='kmeans'): segment_image takes no
\* method argument, so the call raises TypeError; main catches nothing
SegmentCall ==
    /\ main_pc = "segment"
    /\ main_pc' = "crashed"
    /\ main_err' = "TypeError"
    /\ UNCHANGED <<folder_exists, file_list, file_pos, images, warnings,
                   image_pos, attempted>>
    /\ UNCHANGED <<fitVars, rcVars>>

\* the loop over the images is over
MainReturn ==
    /\ main_pc = "loop"
    /\ image_pos = Len(images)
    /\ main_pc' = "returned"
    /\ UNCHANGED <<folder_exists, file_list, file_pos, images, warnings,
                   image_pos, attempted, main_err>>
    /\ UNCHANGED <<fitVars, rcVars>>

main ==
    \/ LoadMissingFolder
    \/ LoadImage
    \/ LoadWarn
    \/ LoadReturn
    \/ StartImage
    \/ SegmentCall
    \/ MainReturn

\* ---------------------------------------------------------- specifications
FitIdle ==
    /\ X = <<>>
    /\ dtype = ""
    /\ n_clusters = 0
    /\ max_iter = 0
    /\ centers = <<>>
    /\ centers_dtype = ""
    /\ random_idx = <<>>
    /\ i = 0
    /\ labels = <<>>
    /\ new_centers = <<>>
    /\ labels_ = <<>>
    /\ pc = "idle"
    /\ err = ""
    /\ history = <<>>

RCIdle ==
    /\ gray = <<>>
    /\ rows = 0
    /\ cols = 0
    /\ num_clusters = 0
    /\ data = <<>>
    /\ row_ind = <<>>
    /\ col_ind = <<>>
    /\ degrees = <<>>
    /\ laplacian = <<>>
    /\ vec = <<>>
    /\ rc_labels = <<>>
    /\ rc_pc = "idle"
    /\ rc_err = ""

MainIdle ==
    /\ folder_exists = FALSE
    /\ file_list = <<>>
    /\ file_pos = 0
    /\ images = <<>>
    /\ warnings = <<>>
    /\ image_pos = 0
    /\ attempted = {}
    /\ main_pc = "idle"
    /\ main_err = ""

vars == <<fitVars, rcVars, mainVars>>

\* a call of KMeansFromScratch(...).fit(X)
InitFit == FitInit /\ RCIdle /\ MainIdle

SpecFit == InitFit /\ [][fit]_vars

\* a call of ratio_cut_clustering(image, num_clusters)
InitRatioCut == FitIdle /\ RCInit /\ MainIdle

SpecRatioCut == InitRatioCut /\ [][ratio_cut_clustering]_vars

\* a run of main()
InitMain == FitIdle /\ RCIdle /\ MainInit

SpecMain == InitMain /\ [][main]_vars

Init == InitFit \/ InitRatioCut \/ InitMain

Next == fit \/ ratio_cut_clustering \/ main

Spec == Init /\ [][Next]_vars

\* ---------------------------------------------------- properties of fit
N == Len(X)

Rounds == Len(history)

Last == history[Rounds]

Terminal == pc \in {"done", "raised"}

HasEmptyCluster(h) == \E c \in 1..Len(h.new) : h.new[c].nan

IsDataPoint(c) == ~c.nan /\ \E n \in 1..N : FracEq(c, Frac(X[n], 1))

\* C1: with N >= k >= 1 and max_iter >= 1, fit ends with labels_ of length N
\* whose entries all lie in [0, k).
C1_LabelsInRange ==
    (pc = "done" /\ N >= n_clusters /\ n_clusters >= 1 /\ max_iter >= 1)
        => /\ Len(labels_) = N
           /\ \A n \in 1..N : labels_[n] \in 0..(n_clusters - 1)

C1_Witness ==
    /\ pc = "done"
    /\ N >= n_clusters
    /\ max_iter >= 1
    /\ \E t \in 1..Rounds : HasEmptyCluster(history[t])
    /\ Len(labels_) = N

\* C2: when the update step finds a cluster with no rows, an error is raised
\* or that centroid is reinitialized to a data point; no loop state carries
\* an undefined centroid.
C2_EmptyClusterPolicy ==
    (N >= n_clusters /\ pc \in {"loop", "update", "check"}) =>
        /\ pc = "check" =>
               \A c \in 1..n_clusters :
                   Members(labels, c - 1) = {} => IsDataPoint(new_centers[c])
        /\ \A c \in 1..Len(centers) : ~centers[c].nan

\* C3: initialization takes k distinct rows of X as the centroids, and with
\* k > N fit fails with InvalidConfigError before any assign or update step.
C3_DistinctRowsOrInvalidConfig ==
    pc # "start" =>
        IF n_clusters <= N
        THEN /\ Len(random_idx) = n_clusters
             /\ \A a, b \in 1..Len(random_idx) : a # b => random_idx[a] # random_idx[b]
             /\ (pc = "loop" /\ i = 0) =>
                    centers = [c \in 1..n_clusters |-> Frac(X[random_idx[c]], 1)]
        ELSE /\ pc = "raised"
             /\ err = "InvalidConfigError"
             /\ labels = <<>>
             /\ history = <<>>

\* every coordinate of every centroid moved by less than the tolerance 1e-4
MovedLessThanTol(h) ==
    /\ Len(h.old) = Len(h.new)
    /\ \A c \in 1..Len(h.new) :
          /\ ~h.old[c].nan
          /\ ~h.new[c].nan
          /\ 10000 * Abs(h.old[c].num * h.new[c].den - h.new[c].num * h.old[c].den)
                < h.old[c].den * h.new[c].den

SameCentroid(a, b) == (a.nan /\ b.nan) \/ (~a.nan /\ ~b.nan /\ FracEq(a, b))

NothingMoved(h) ==
    /\ Len(h.old) = Len(h.new)
    /\ \A c \in 1..Len(h.new) : SameCentroid(h.old[c], h.new[c])

\* the criterion of the code: np.allclose(old, new, atol=1e-4)
ClosePerNumpy(h) == Broadcastable(Len(h.old), Len(h.new)) /\ AllClose(h.old, h.new)

\* C4 as stated: fit terminates within max_iter rounds, stops at the first
\* round whose centroids all moved by less than the tolerance, and otherwise
\* runs exactly max_iter rounds; it never iterates past a round in which no
\* centroid moved.
C4_StopsAtToleranceOrMaxIter ==
    (N >= n_clusters /\ n_clusters >= 1) =>
        /\ Rounds <= max_iter
        /\ i <= max_iter
        /\ Terminal \/ ENABLED fit
        /\ \A t \in 1..Rounds :
              (MovedLessThanTol(history[t]) \/ NothingMoved(history[t]))
                  => (t = Rounds /\ pc \in {"check", "exit", "done"})
        /\ (pc = "done" /\ max_iter >= 1) =>
              (MovedLessThanTol(Last) \/ Rounds = max_iter)

\* C4 amended: the same, with the stop criterion of the code, np.allclose with
\* atol = 1e-4 and the default rtol = 1e-5: |old - new| <= 1e-4 + 1e-5 * |new|
\* on every coordinate.
C4_StopsAtAllCloseOrMaxIter ==
    (N >= n_clusters /\ n_clusters >= 1) =>
        /\ Rounds <= max_iter
        /\ i <= max_iter
        /\ Terminal \/ ENABLED fit
        /\ \A t \in 1..Rounds :
              (ClosePerNumpy(history[t]) \/ NothingMoved(history[t]))
                  => (t = Rounds /\ pc \in {"check", "exit", "done"})
        /\ (pc = "done" /\ max_iter >= 1) =>
              (ClosePerNumpy(Last) \/ Rounds = max_iter)

\* a run that stopped by allclose in a round whose centroid moved by 1e-4 or more
C4_Witness ==
    /\ pc = "done"
    /\ N >= n_clusters
    /\ Rounds >= 1
    /\ Rounds < max_iter
    /\ ClosePerNumpy(Last)
    /\ ~MovedLessThanTol(Last)

RECURSIVE Factorial(_)
Factorial(n) == IF n <= 1 THEN 1 ELSE n * Factorial(n - 1)

RECURSIVE SumSq(_, _)
\* the sum over the rows 1..n of (N!)^2 times the squared distance from the
\* row to the centroid the update step computed for its cluster
SumSq(h, n) ==
    IF n = 0 THEN 0
    ELSE LET c == h.new[h.labels[n] + 1]
             e == (X[n] * c.den - c.num) * (Factorial(N) \div c.den)
         IN  e * e + SumSq(h, n - 1)

WCSS(h) == SumSq(h, N)

\* C5: the total within-cluster squared distance, measured after each update
\* step, never increases from one round to the next.
C5_WCSSNonIncreasing ==
    N >= n_clusters =>
        \A t \in 1..(Rounds - 1) : WCSS(history[t + 1]) <= WCSS(history[t])

\* C10 as stated: on every exit, labels_ is assign_labels(X) on the centers
\* stored at that moment.
C10_LabelsMatchFinalCenters ==
    (pc = "done" /\ N >= n_clusters) => labels_ = assign_labels(X, centers, centers_dtype)

\* C10 amended: on exit by convergence, labels_ is assign_labels(X) on the
\* stored centers; on exit by exhausting max_iter, labels_ is assign_labels(X)
\* on the centers the last round started from, which the last round has since
\* replaced.
C10_LabelsMatchAssignedCenters ==
    pc = "done" =>
        IF i < max_iter
        THEN labels_ = assign_labels(X, centers, centers_dtype)
        ELSE /\ labels_ = assign_labels(X, Last.old, Last.old_dtype)
             /\ centers = Last.new

C10_Witness ==
    /\ pc = "done"
    /\ i = max_iter
    /\ N >= n_clusters
    /\ \A t \in 1..Rounds : ~HasEmptyCluster(history[t])
    /\ labels_ # assign_labels(X, centers, centers_dtype)

\* ------------------------------------ properties of ratio_cut_clustering
\* the weight of the edge between pixel p and its neighbour at (r, c), zero
\* when (r, c) is off the grid
EdgeTo(p, r, c) ==
    IF r \in 0..(rows - 1) /\ c \in 0..(cols - 1)
    THEN Weight(gray[p \div cols][p % cols], gray[r][c])
    ELSE RZero

\* the sum of the weights of the edges at pixel p in the 4-connected grid
Incident(p) ==
    LET r == p \div cols
        c == p % cols
    IN  RAdd(RAdd(EdgeTo(p, r - 1, c), EdgeTo(p, r + 1, c)),
             RAdd(EdgeTo(p, r, c - 1), EdgeTo(p, r, c + 1)))

\* C6: degree[i] is the sum of the weights of all edges incident to pixel i
\* (up, down, left and right neighbours that exist).
C6_DegreeIsIncidentWeight ==
    degrees # <<>> => \A p \in Pixels : degrees[p] = Incident(p)

RECURSIVE RowSum(_, _)
\* the sum of laplacian[p][0..q]
RowSum(p, q) == IF q < 0 THEN RZero ELSE RAdd(RowSum(p, q - 1), laplacian[p][q])

\* C7: every row of the Laplacian handed to the eigensolver sums to exactly 0.
C7_LaplacianRowSumsZero ==
    laplacian # <<>> => \A p \in Pixels : RowSum(p, Size - 1) = RZero

LabelValues == {rc_labels[r][c] : r \in 0..(rows - 1), c \in 0..(cols - 1)}

ShapeIsGrid ==
    /\ DOMAIN rc_labels = 0..(rows - 1)
    /\ \A r \in 0..(rows - 1) : DOMAIN rc_labels[r] = 0..(cols - 1)

\* C8 as stated: the returned rows x cols label map holds exactly the two
\* values 0 and 1, for every second eigenvector.
C8_ExactlyTwoLabels ==
    rc_pc = "returned" => ShapeIsGrid /\ LabelValues = {0, 1}

\* C8 amended: the returned rows x cols label map holds no value but 0 and 1;
\* a pixel has label 1 exactly when its component is strictly greater than
\* the median, so 0 always occurs and 1 occurs only if some component
\* exceeds the median (never for a vector of equal components).
C8_AtMostTwoLabels ==
    rc_pc = "returned" =>
        /\ ShapeIsGrid
        /\ LabelValues \subseteq {0, 1}
        /\ 0 \in LabelValues
        /\ \A p \in Pixels :
              rc_labels[p \div cols][p % cols] = 1 <=> 2 * vec[p] > TwiceMedian(vec)
        /\ (\A p, q \in Pixels : vec[p] = vec[q]) => LabelValues = {0}

\* a returned label map for an eigenvector whose components are all equal
C8_Witness ==
    /\ rc_pc = "returned"
    /\ \A p, q \in Pixels : vec[p] = vec[q]
    /\ LabelValues = {0}

\* --------------------------------------------------- properties of main
AllImages == {images[k] : k \in 1..Len(images)}

\* C9: a failure on one image never halts the batch: when main is over,
\* every image of the folder was attempted.
C9_FailureDoesNotHaltBatch ==
    main_pc \in {"returned", "crashed"} => attempted = AllImages

=============================================================================
